---- MODULE Spec2Model ----
(***************************************************************************)
(* rslex, regexp.rs: the token stream with one token of lookahead and the  *)
(* recursive-descent parser of regular expressions built on it.            *)
(*                                                                         *)
(* Characters are one-character strings, Rust strings are sequences of     *)
(* characters.  A Token, a ClassItem and an Ast are tuples whose first     *)
(* element is the variant's name.  Option values are sequences of length   *)
(* at most one.  The call stack of the mutually recursive functions is an  *)
(* explicit sequence of frames, the running function first.                *)
(***************************************************************************)
EXTENDS Integers, Sequences, FiniteSets, TLC

VARIABLES input, given, term, rest, peek, stack, ret, status, result, entry,
          calls, op, lost, log

vars == <<input, given, term, rest, peek, stack, ret, status, result, entry,
          calls, op, lost, log>>

(***************************************************************************)
(* Bounds of the model.                                                    *)
(***************************************************************************)
MaxPieces == 3
MaxOps == 2
MaxItems == 2
MaxCalls == 3

(***************************************************************************)
(* Character classes of std::char over the characters the model uses.      *)
(***************************************************************************)
Alphabetic == {"a", "b", "c", "d", "e", "g", "i", "l", "r", "t", "z", "A", "B", "C", "Z"}

Digits == {"0", "5", "9"}

Whitespace == {" ", "\t"}

is_alphabetic(c) == c \in Alphabetic

is_alphanumeric(c) == c \in Alphabetic \cup Digits

is_id_char(c) == is_alphanumeric(c) \/ c = "_"

\* A slip: the terminator of the tests is the only one.
is_terminator_comma(c, t) == c = ","

is_terminator(c, t) == c \in t

(***************************************************************************)
(* Tokens.                                                                 *)
(***************************************************************************)
LBrack == <<"LBrack">>
RBrack == <<"RBrack">>
LParen == <<"LParen">>
RParen == <<"RParen">>
Asterisk == <<"Asterisk">>
Plus == <<"Plus">>
Bar == <<"Bar">>
Dash == <<"Dash">>
End == <<"End">>
Eof == <<"Eof">>
Id(s) == <<"Id", s>>
String(s) == <<"String", s>>
Error(c) == <<"Error", c>>

Kind(tok) == tok[1]

(***************************************************************************)
(* Class items and syntax trees.                                           *)
(***************************************************************************)
Singles(s) == <<"Singles", s>>
Range(c1, c2) == <<"Range", c1, c2>>

Symb(s) == <<"Symb", s>>
Str(s) == <<"Str", s>>
Union(l, r) == <<"Union", l, r>>
Conc(l, r) == <<"Conc", l, r>>
Star(e) == <<"Star", e>>
OnePlus(e) == <<"OnePlus", e>>
CharClass(items) == <<"CharClass", items>>

(***************************************************************************)
(* The Character Source (LookaheadBuffer): the unread characters.          *)
(***************************************************************************)
RECURSIVE skip_whitespace(_)
skip_whitespace(r) ==
    IF r # <<>> /\ Head(r) \in Whitespace THEN skip_whitespace(Tail(r)) ELSE r

\* next_char: the character read (an Option) and the characters left.
next_char(r) == IF r = <<>> THEN <<>> ELSE <<Head(r)>>

after_next_char(r) == IF r = <<>> THEN r ELSE Tail(r)

return_char(c, r) == <<c>> \o r

(***************************************************************************)
(* Calls, returns and fail!.  A frame is the function's name, the place    *)
(* reached in its body, its locals a and b, and m, the number of unread    *)
(* characters when the call, or the running turn of its loop, began.       *)
(***************************************************************************)
Frame(f, a, b) == [fn |-> f, pc |-> 0, a |-> a, b |-> b, m |-> Len(rest)]

Top == Head(stack)

Running(f, pc) == status = "running" /\ stack # <<>> /\ Top.fn = f /\ Top.pc = pc

\* The running function, at pc with locals a and b, calls f(x).
Call(f, x, pc, a, b) ==
    stack' = <<Frame(f, x, <<>>), [Top EXCEPT !.pc = pc, !.a = a, !.b = b]>>
             \o Tail(stack)

\* The running function starts the next turn of its loop with locals a and b.
Again(a, b, m) ==
    stack' = <<[Top EXCEPT !.pc = 0, !.a = a, !.b = b, !.m = m]>> \o Tail(stack)

\* The running function returns v; the outermost return gives the caller v.
Return(v) ==
    /\ stack' = Tail(stack)
    /\ ret' = v
    /\ IF Len(stack) = 1
       THEN status' = "done" /\ result' = (IF calls = 0 THEN <<v>> ELSE result)
       ELSE UNCHANGED <<status, result>>

\* fail!: the task unwinds and nothing is returned.
Fail ==
    /\ stack' = <<>>
    /\ status' = "failed"
    /\ UNCHANGED <<ret, result>>

(***************************************************************************)
(* History of the token stream's operations: the last two of them.         *)
(* An event names the operation, the token it took or gave, where          *)
(* next_token got it from, the next unread character when it started and   *)
(* the number of characters it took from the Character Source.             *)
(***************************************************************************)
Event(name, tok, from, first, took) ==
    [name |-> name, tok |-> tok, from |-> from, first |-> first, took |-> took]

NoEvent == Event("none", <<>>, "none", <<>>, 0)

Log(e) == <<op[2], e>>

(***************************************************************************)
(* TokenStream                                                             *)
(***************************************************************************)
\* return_token(tok): peek = Some(tok), whatever peek held.
return_token(tok) ==
    /\ peek' = <<tok>>
    /\ lost' = (lost \/ peek # <<>>)
    /\ op' = Log(Event("return_token", tok, "none", <<>>, 0))

\* A slip: next_token gives a pending token and leaves it pending.
next_token_uncleared ==
    /\ Running("next_token", 0)
    /\ IF peek = <<>>
       THEN /\ Call("next_token_raw", <<>>, 1, rest, <<>>)
            /\ UNCHANGED <<peek, ret, status, result, op>>
       ELSE /\ peek' = peek
            /\ Return(peek[1])
            /\ op' = Log(Event("next_token", peek[1], "peek", next_char(rest), 0))
    /\ UNCHANGED <<input, given, term, rest, entry, calls, lost, log>>

\* next_token, entered: a pending token is cloned, else next_token_raw runs.
next_token ==
    /\ Running("next_token", 0)
    /\ IF peek = <<>>
       THEN /\ Call("next_token_raw", <<>>, 1, rest, <<>>)
            /\ UNCHANGED <<peek, ret, status, result, op>>
       ELSE /\ peek' = <<>>
            /\ Return(peek[1])
            /\ op' = Log(Event("next_token", peek[1], "peek", next_char(rest), 0))
    /\ UNCHANGED <<input, given, term, rest, entry, calls, lost, log>>

\* A slip: next_token keeps the token it has scanned as the pending one.
next_token_res_cached ==
    /\ Running("next_token", 1)
    /\ peek' = <<ret>>
    /\ Return(ret)
    /\ op' = Log(Event("next_token", ret, "raw", next_char(Top.a),
                       Len(Top.a) - Len(rest)))
    /\ UNCHANGED <<input, given, term, rest, entry, calls, lost, log>>

\* next_token, after next_token_raw: peek = None and the token is returned.
next_token_res ==
    /\ Running("next_token", 1)
    /\ peek' = <<>>
    /\ Return(ret)
    /\ op' = Log(Event("next_token", ret, "raw", next_char(Top.a),
                       Len(Top.a) - Len(rest)))
    /\ UNCHANGED <<input, given, term, rest, entry, calls, lost, log>>

SingleChar ==
    [c \in {"[", "]", "(", ")", "*", "+", "|", "-"} |->
        CASE c = "[" -> LBrack
          [] c = "]" -> RBrack
          [] c = "(" -> LParen
          [] c = ")" -> RParen
          [] c = "*" -> Asterisk
          [] c = "+" -> Plus
          [] c = "|" -> Bar
          [] c = "-" -> Dash]

\* The tokens next_token_raw was asked for, in order, each with the place in the
\* input of its first character; Scanning stands for one still being read.
Scanning == <<"Scanning">>

Logged(at, tok) == Append(log, [at |-> at, tok |-> tok])

\* next_token_raw, entered: whitespace is skipped, one character read and matched.
next_token_raw ==
    /\ Running("next_token_raw", 0)
    /\ LET r == skip_whitespace(rest)
           c == next_char(r)
           at == Len(input) - Len(r) + 1
       IN  /\ rest' = after_next_char(r)
           /\ IF c = <<>>
              THEN Return(Eof) /\ log' = Logged(at, Eof)
              ELSE IF c[1] \in DOMAIN SingleChar
              THEN Return(SingleChar[c[1]]) /\ log' = Logged(at, SingleChar[c[1]])
              ELSE IF c[1] \in {"'", "\""}
              THEN /\ Call("parse_string", c[1], 1, <<>>, <<>>)
                   /\ log' = Logged(at, Scanning)
                   /\ UNCHANGED <<ret, status, result>>
              ELSE IF is_alphabetic(c[1])
              THEN /\ Call("parse_id", <<c[1]>>, 2, <<>>, <<>>)
                   /\ log' = Logged(at, Scanning)
                   /\ UNCHANGED <<ret, status, result>>
              ELSE IF is_terminator(c[1], term)
              THEN Return(End) /\ log' = Logged(at, End)
              ELSE Return(Error(c[1])) /\ log' = Logged(at, Error(c[1]))
    /\ UNCHANGED <<input, given, term, peek, entry, calls, op, lost>>

\* next_token_raw, after parse_string or parse_id: the token is built.
next_token_raw_res ==
    /\ Running("next_token_raw", 1) \/ Running("next_token_raw", 2)
    /\ LET tok == IF Top.pc = 1 THEN String(ret) ELSE Id(ret)
       IN  /\ Return(tok)
           /\ log' = [log EXCEPT ![Len(log)].tok = tok]
    /\ UNCHANGED <<input, given, term, rest, peek, entry, calls, op, lost>>

\* parse_string(delim), one turn of its loop; a holds delim, b holds res.
parse_string ==
    /\ Running("parse_string", 0)
    /\ LET c == next_char(rest)
       IN  /\ rest' = after_next_char(rest)
           /\ IF c = <<>>
              THEN Fail
              ELSE IF c[1] = Top.a
              THEN Return(Top.b)
              ELSE /\ Again(Top.a, Append(Top.b, c[1]), Len(rest) - 1)
                   /\ UNCHANGED <<ret, status, result>>
    /\ UNCHANGED <<input, given, term, peek, entry, calls, op, lost, log>>

\* A slip: parse_id looks at the next character and never takes it.
parse_id_stuck ==
    /\ Running("parse_id", 0)
    /\ LET c == next_char(rest)
       IN  IF c = <<>>
           THEN /\ rest' = after_next_char(rest)
                /\ Return(Top.a)
           ELSE IF is_id_char(c[1])
           THEN /\ rest' = return_char(c[1], after_next_char(rest))
                /\ Again(Top.a, <<>>, Len(rest))
                /\ UNCHANGED <<ret, status, result>>
           ELSE /\ rest' = return_char(c[1], after_next_char(rest))
                /\ Return(Top.a)
    /\ UNCHANGED <<input, given, term, peek, entry, calls, op, lost, log>>

\* parse_id(first), one turn of its loop; a holds res, which starts as first.
parse_id ==
    /\ Running("parse_id", 0)
    /\ LET c == next_char(rest)
       IN  IF c = <<>>
           THEN /\ rest' = after_next_char(rest)
                /\ Return(Top.a)
           ELSE IF is_id_char(c[1])
           THEN /\ rest' = after_next_char(rest)
                /\ Again(Append(Top.a, c[1]), <<>>, Len(rest) - 1)
                /\ UNCHANGED <<ret, status, result>>
           ELSE /\ rest' = return_char(c[1], after_next_char(rest))
                /\ Return(Top.a)
    /\ UNCHANGED <<input, given, term, peek, entry, calls, op, lost, log>>

(***************************************************************************)
(* The parser                                                              *)
(***************************************************************************)
NoScan == UNCHANGED <<input, given, term, rest, entry, calls, log>>

NoPush == UNCHANGED <<peek, op, lost>>

Going == UNCHANGED <<ret, status, result>>

\* parse_regexp(ts), entered: parse_union(ts).
parse_regexp ==
    /\ Running("parse_regexp", 0)
    /\ Call("parse_union", <<>>, 1, <<>>, <<>>)
    /\ NoScan /\ NoPush /\ Going

\* parse_regexp, after parse_union.
parse_regexp_res ==
    /\ Running("parse_regexp", 1)
    /\ Return(ret)
    /\ NoScan /\ NoPush

\* parse_union, entered: left = parse_concat(ts).
parse_union ==
    /\ Running("parse_union", 0)
    /\ Call("parse_concat", <<>>, 1, <<>>, <<>>)
    /\ NoScan /\ NoPush /\ Going

\* parse_union, after parse_concat: ts.next_token(); a holds left.
parse_union_left ==
    /\ Running("parse_union", 1)
    /\ Call("next_token", <<>>, 2, ret, <<>>)
    /\ NoScan /\ NoPush /\ Going

\* A slip: parse_union does not give back the token that is not a Bar.
parse_union_tok_kept ==
    /\ Running("parse_union", 2)
    /\ IF Kind(ret) = "Bar"
       THEN /\ Call("parse_union", <<>>, 3, Top.a, <<>>)
            /\ Going
       ELSE Return(Top.a)
    /\ NoScan /\ NoPush

\* parse_union, the token after left.
parse_union_tok ==
    /\ Running("parse_union", 2)
    /\ IF Kind(ret) = "Bar"
       THEN /\ Call("parse_union", <<>>, 3, Top.a, <<>>)
            /\ NoPush /\ Going
       ELSE /\ return_token(ret)
            /\ Return(Top.a)
    /\ NoScan

\* parse_union, after the right parse_union.
parse_union_right ==
    /\ Running("parse_union", 3)
    /\ Return(Union(Top.a, ret))
    /\ NoScan /\ NoPush

\* parse_concat, entered: left = parse_factor(ts).
parse_concat ==
    /\ Running("parse_concat", 0)
    /\ Call("parse_factor", <<>>, 1, <<>>, <<>>)
    /\ NoScan /\ NoPush /\ Going

\* parse_concat, after parse_factor: ts.next_token(); a holds left.
parse_concat_left ==
    /\ Running("parse_concat", 1)
    /\ Call("next_token", <<>>, 2, ret, <<>>)
    /\ NoScan /\ NoPush /\ Going

\* The tokens on which parse_concat returns its factor alone.
ConcatEnds == {"Bar", "End", "RParen"}

\* parse_concat, the token after left: it goes back in every arm.
parse_concat_tok ==
    /\ Running("parse_concat", 2)
    /\ return_token(ret)
    /\ IF Kind(ret) \in ConcatEnds
       THEN Return(Top.a)
       ELSE /\ Call("parse_concat", <<>>, 3, Top.a, <<>>)
            /\ Going
    /\ NoScan

\* A slip: parse_concat builds its node with the two sides exchanged.
parse_concat_right_swapped ==
    /\ Running("parse_concat", 3)
    /\ Return(Conc(ret, Top.a))
    /\ NoScan /\ NoPush

\* parse_concat, after the right parse_concat.
parse_concat_right ==
    /\ Running("parse_concat", 3)
    /\ Return(Conc(Top.a, ret))
    /\ NoScan /\ NoPush

\* trailing_closure, entered: ts.next_token().
trailing_closure ==
    /\ Running("trailing_closure", 0)
    /\ Call("next_token", <<>>, 1, <<>>, <<>>)
    /\ NoScan /\ NoPush /\ Going

\* The Option<Token> that trailing_closure returns.
Some(tok) == <<"Some", tok>>

None == <<"None">>

\* A slip: trailing_closure does not give back the token that is no closure.
trailing_closure_tok_dropped ==
    /\ Running("trailing_closure", 1)
    /\ Return(IF Kind(ret) \in {"Asterisk", "Plus"} THEN Some(ret) ELSE None)
    /\ NoScan /\ NoPush

\* trailing_closure, the token: Some(Asterisk), Some(Plus), or None and it goes back.
trailing_closure_tok ==
    /\ Running("trailing_closure", 1)
    /\ IF Kind(ret) \in {"Asterisk", "Plus"}
       THEN /\ Return(Some(ret))
            /\ NoPush
       ELSE /\ return_token(ret)
            /\ Return(None)
    /\ NoScan

\* match_next_token(ts, t), entered: rt = ts.next_token(); a holds t.
match_next_token ==
    /\ Running("match_next_token", 0)
    /\ Call("next_token", <<>>, 1, Top.a, <<>>)
    /\ NoScan /\ NoPush /\ Going

\* match_next_token: rt != t fails.
match_next_token_rt ==
    /\ Running("match_next_token", 1)
    /\ IF Kind(ret) = Kind(Top.a) /\ ret = Top.a THEN Return(<<>>) ELSE Fail
    /\ NoScan /\ NoPush

\* char_at(0) of a string: the index is checked, so there is none in an empty string.
char_at_0(s) == IF s = <<>> THEN <<>> ELSE <<s[1]>>

\* parse_character_class, the head of its loop; a holds res, the items so far.
parse_character_class ==
    /\ Running("parse_character_class", 0)
    /\ Call("next_token", <<>>, 1, Top.a, <<>>)
    /\ NoScan /\ NoPush /\ Going

\* parse_character_class, the first token of a turn.
parse_character_class_tok ==
    /\ Running("parse_character_class", 1)
    /\ IF Kind(ret) = "String"
       THEN /\ Call("next_token", <<>>, 2, Top.a, ret[2])
            /\ Going
       ELSE IF Kind(ret) = "RBrack"
       THEN Return(CharClass(Top.a))
       ELSE Fail
    /\ NoScan /\ NoPush

\* A slip: parse_character_class puts a Singles item before the items so far.
parse_character_class_s1_front ==
    /\ Running("parse_character_class", 2)
    /\ IF Kind(ret) = "Dash"
       THEN /\ Call("next_token", <<>>, 3, Top.a, Top.b)
            /\ NoPush
       ELSE /\ return_token(ret)
            /\ Again(<<Singles(Top.b)>> \o Top.a, <<>>, Len(rest))
    /\ NoScan /\ Going

\* parse_character_class, the token after String(s1); b holds s1.
parse_character_class_s1 ==
    /\ Running("parse_character_class", 2)
    /\ IF Kind(ret) = "Dash"
       THEN /\ Call("next_token", <<>>, 3, Top.a, Top.b)
            /\ NoPush
       ELSE /\ return_token(ret)
            /\ Again(Append(Top.a, Singles(Top.b)), <<>>, Len(rest))
    /\ NoScan /\ Going

\* A slip: parse_character_class passes over a token after Dash that is no string.
parse_character_class_s2_lenient ==
    /\ Running("parse_character_class", 3)
    /\ IF Kind(ret) = "String" /\ char_at_0(Top.b) # <<>> /\ char_at_0(ret[2]) # <<>>
       THEN Again(Append(Top.a, Range(char_at_0(Top.b)[1], char_at_0(ret[2])[1])),
                  <<>>, Len(rest))
       ELSE Again(Top.a, <<>>, Len(rest))
    /\ NoScan /\ NoPush /\ Going

\* parse_character_class, the token after String(s1) Dash.
parse_character_class_s2 ==
    /\ Running("parse_character_class", 3)
    /\ IF Kind(ret) = "String" /\ char_at_0(Top.b) # <<>> /\ char_at_0(ret[2]) # <<>>
       THEN /\ Again(Append(Top.a, Range(char_at_0(Top.b)[1], char_at_0(ret[2])[1])),
                     <<>>, Len(rest))
            /\ Going
       ELSE Fail
    /\ NoScan /\ NoPush

\* parse_factor, entered: ts.next_token().
parse_factor ==
    /\ Running("parse_factor", 0)
    /\ Call("next_token", <<>>, 1, <<>>, <<>>)
    /\ NoScan /\ NoPush /\ Going

\* parse_factor, the first token of the factor.
parse_factor_tok ==
    /\ Running("parse_factor", 1)
    /\ IF Kind(ret) = "LParen"
       THEN Call("parse_regexp", <<>>, 2, <<>>, <<>>) /\ Going
       ELSE IF Kind(ret) = "LBrack"
       THEN Call("parse_character_class", <<>>, 4, <<>>, <<>>) /\ Going
       ELSE IF Kind(ret) = "Id"
       THEN Call("trailing_closure", <<>>, 5, Symb(ret[2]), <<>>) /\ Going
       ELSE IF Kind(ret) = "String"
       THEN Call("trailing_closure", <<>>, 5, Str(ret[2]), <<>>) /\ Going
       ELSE Fail
    /\ NoScan /\ NoPush

\* parse_factor, after parse_regexp: match_next_token(ts, RParen); a holds e.
parse_factor_paren ==
    /\ Running("parse_factor", 2)
    /\ Call("match_next_token", RParen, 3, ret, <<>>)
    /\ NoScan /\ NoPush /\ Going

\* parse_factor with pre in hand: trailing_closure(ts); a holds pre.
parse_factor_pre ==
    /\ Running("parse_factor", 3) \/ Running("parse_factor", 4)
    /\ Call("trailing_closure", <<>>, 5, IF Top.pc = 3 THEN Top.a ELSE ret, <<>>)
    /\ NoScan /\ NoPush /\ Going

\* parse_factor, the closure.
parse_factor_closure ==
    /\ Running("parse_factor", 5)
    /\ IF ret = None
       THEN Return(Top.a)
       ELSE IF Kind(ret[2]) = "Asterisk"
       THEN Return(Star(Top.a))
       ELSE IF Kind(ret[2]) = "Plus"
       THEN Return(OnePlus(Top.a))
       ELSE Fail
    /\ NoScan /\ NoPush

(***************************************************************************)
(* The caller: the tests of regexp.rs call parse_regexp,                   *)
(* parse_character_class and next_token on a fresh TokenStream, and go on  *)
(* with next_token and return_token on the same stream.                    *)
(***************************************************************************)
\* The caller asks for the next token.
caller_next_token ==
    /\ status = "done"
    /\ calls < MaxCalls
    /\ calls' = calls + 1
    /\ stack' = <<Frame("next_token", <<>>, <<>>)>>
    /\ status' = "running"
    /\ UNCHANGED <<input, given, term, rest, peek, ret, result, entry, op, lost, log>>

\* The caller gives back the token it has just taken, as test_next_token_raw does;
\* it keeps to the precondition that no token is pending.
caller_return_token ==
    /\ status = "done"
    /\ calls < MaxCalls
    /\ op[2].name = "next_token"
    /\ peek = <<>>
    /\ calls' = calls + 1
    /\ return_token(ret)
    /\ UNCHANGED <<input, given, term, rest, stack, ret, status, result, entry, log>>

(***************************************************************************)
(* Inputs.  given says how the input was made: any pieces, a tree written  *)
(* out, the items of a character class written out, or a test of           *)
(* regexp.rs.                                                              *)
(***************************************************************************)
Pieces ==
    { <<"(">>, <<")">>, <<"[">>, <<"]">>, <<"*">>, <<"|">>, <<"-">>,
      <<",">>, <<" ">>, <<"'">>, <<"a">>, <<"0">>, <<"'", "b", "'">> }

RECURSIVE PieceSeqs(_)
PieceSeqs(n) ==
    IF n = 0 THEN {<<>>}
    ELSE LET S == PieceSeqs(n - 1) IN S \cup {s \o p : s \in S, p \in Pieces}

TermSets == {{","}, {",", "0", "*", " ", "a"}}

\* The trees with n operators over three leaves.
Leaves == {Symb(<<"a">>), Str(<<"b">>), CharClass(<<Range("a", "z")>>)}

RECURSIVE TreesOf(_)
TreesOf(n) ==
    IF n = 0 THEN Leaves
    ELSE {Star(t) : t \in TreesOf(n - 1)}
         \cup {OnePlus(t) : t \in TreesOf(n - 1)}
         \cup UNION {{Union(l, r) : l \in TreesOf(i), r \in TreesOf(n - 1 - i)} :
                     i \in 0..(n - 1)}
         \cup UNION {{Conc(l, r) : l \in TreesOf(i), r \in TreesOf(n - 1 - i)} :
                     i \in 0..(n - 1)}

Trees == UNION {TreesOf(n) : n \in 0..MaxOps}

\* A string literal, a class item and a tree as they are written.
Quoted(s) == <<"'">> \o s \o <<"'">>

RenderItem(it) ==
    IF it[1] = "Singles" THEN Quoted(it[2])
    ELSE Quoted(<<it[2]>>) \o <<"-">> \o Quoted(<<it[3]>>)

RECURSIVE RenderItems(_)
RenderItems(items) ==
    IF items = <<>> THEN <<>>
    ELSE RenderItem(Head(items)) \o RenderItems(Tail(items))

Paren(x) == <<"(">> \o x \o <<")">>

RECURSIVE Render(_)
Render(t) ==
    LET Sub(e, tags) == IF e[1] \in tags THEN Paren(Render(e)) ELSE Render(e)
    IN  CASE t[1] = "Symb" -> t[2]
          [] t[1] = "Str" -> Quoted(t[2])
          [] t[1] = "CharClass" -> <<"[">> \o RenderItems(t[2]) \o <<"]">>
          [] t[1] = "Star" ->
               Sub(t[2], {"Union", "Conc", "Star", "OnePlus"}) \o <<"*">>
          [] t[1] = "OnePlus" ->
               Sub(t[2], {"Union", "Conc", "Star", "OnePlus"}) \o <<"+">>
          [] t[1] = "Conc" ->
               Sub(t[2], {"Union", "Conc"}) \o <<" ">> \o Sub(t[3], {"Union"})
          [] t[1] = "Union" ->
               Sub(t[2], {"Union"}) \o <<"|">> \o Render(t[3])

\* The items of a character class as they are written: one string literal, or two
\* with a dash between them.
Literals == {<<>>, <<"a">>, <<"b", "z">>}

ItemsWritten == {<<s>> : s \in Literals} \cup {<<s1, s2>> : s1 \in Literals, s2 \in Literals}

RECURSIVE ItemLists(_)
ItemLists(n) ==
    IF n = 0 THEN {<<>>}
    ELSE LET S == ItemLists(n - 1) IN S \cup {Append(l, it) : l \in S, it \in ItemsWritten}

WriteItem(it) ==
    IF Len(it) = 1 THEN Quoted(it[1]) ELSE Quoted(it[1]) \o <<"-">> \o Quoted(it[2])

RECURSIVE WriteItems(_)
WriteItems(items) ==
    IF items = <<>> THEN <<>>
    ELSE WriteItem(Head(items)) \o WriteItems(Tail(items))

ClassTails == {<<>>, <<",">>, <<"*", ",">>}

\* The tests of regexp.rs: the function called, its input and what the test
\* expects (nothing for a test that should fail).
Test(e, in, want) == [e |-> e, in |-> in, want |-> want]

Letter == Symb(<<"l", "e", "t", "t", "e", "r">>)

Digit09 == CharClass(<<Range("0", "9")>>)

Tests ==
    { Test("parse_regexp", <<"l", "e", "t", "t", "e", "r", ",">>, <<Letter>>),
      Test("parse_regexp", <<"l", "e", "t", "t", "e", "r", "*", ",">>, <<Star(Letter)>>),
      Test("parse_regexp", <<"l", "e", "t", "t", "e", "r", " ", "(", "l", "e", "t", "t", "e", "r", " ", "|", " ", "d", "i", "g", "i", "t", ")", "*", ",">>,
           <<Conc(Letter, Star(Union(Letter, Symb(<<"d", "i", "g", "i", "t">>))))>>),
      Test("parse_regexp", <<"[", "'", "0", "'", "-", "'", "9", "'", "]", "+", " ", "'", ".", "'", " ", "[", "'", "0", "'", "-", "'", "9", "'", "]", "+", ",">>,
           <<Conc(OnePlus(Digit09), Conc(Str(<<".">>), OnePlus(Digit09)))>>),
      Test("parse_character_class", <<"'", "A", "'", "-", "'", "Z", "'", "]", ",">>, <<CharClass(<<Range("A", "Z")>>)>>),
      Test("parse_character_class", <<"]">>, <<CharClass(<<>>)>>),
      Test("parse_character_class", <<"'", "a", "b", "c", "A", "B", "C", "'", "]">>,
           <<CharClass(<<Singles(<<"a", "b", "c", "A", "B", "C">>)>>)>>),
      Test("parse_character_class", <<"'", "a", "b", "'", "'", "c", "d", "'", "'", "0", "'", "-", "'", "9", "'", "'", "5", "5", "'", "]">>,
           <<CharClass(<<Singles(<<"a", "b">>), Singles(<<"c", "d">>), Range("0", "9"),
                         Singles(<<"5", "5">>)>>)>>),
      Test("parse_character_class", <<"'", "A", "'", "-", "-", "'", "Z", "'", "]", ",">>, <<>>),
      Test("parse_character_class", <<"'", "A", "'", "*", "'", "Z", "'", "]", ",">>, <<>>) }

\* The inputs that hold an expression and no terminator: "a", "a*", "a(b|c)*".
Examples ==
    { Test("parse_regexp", <<"a">>, <<Symb(<<"a">>)>>),
      Test("parse_regexp", <<"a", "*">>, <<Star(Symb(<<"a">>))>>),
      Test("parse_regexp", <<"a", "(", "b", "|", "c", ")", "*">>,
           <<Conc(Symb(<<"a">>), Star(Union(Symb(<<"b">>), Symb(<<"c">>))))>>) }

Given(kind, want, tail) == [kind |-> kind, want |-> want, tail |-> tail]

Start(e, in, g, t) ==
    /\ entry = e
    /\ input = in
    /\ given = g
    /\ term = t
    /\ rest = in
    /\ peek = <<>>
    /\ stack = <<[fn |-> e, pc |-> 0, a |-> <<>>, b |-> <<>>, m |-> Len(in)]>>
    /\ ret = <<>>
    /\ status = "running"
    /\ result = <<>>
    /\ calls = 0
    /\ op = <<NoEvent, NoEvent>>
    /\ lost = FALSE
    /\ log = <<>>

InitPieces ==
    \E in \in PieceSeqs(MaxPieces) :
        \/ \E t \in TermSets : Start("parse_regexp", in, Given("pieces", <<>>, <<>>), t)
        \/ Start("next_token", in, Given("pieces", <<>>, <<>>), {","})

InitTree ==
    \E t \in Trees :
        Start("parse_regexp", Render(t) \o <<",">>, Given("tree", <<t>>, <<",">>), {","})

InitExample ==
    \E x \in Examples : Start("parse_regexp", x.in, Given("example", x.want, <<>>), {","})

InitClass ==
    \E items \in ItemLists(MaxItems), tail \in ClassTails :
        Start("parse_character_class", WriteItems(items) \o <<"]">> \o tail,
              Given("class", <<items>>, tail), {","})

InitTest ==
    \E t \in Tests : Start(t.e, t.in, Given("test", t.want, <<>>), {","})

Init ==
    \/ InitPieces
    \/ InitTree
    \/ InitExample
    \/ InitClass
    \/ InitTest

Step ==
    \/ next_token
    \/ next_token_res
    \/ next_token_raw
    \/ next_token_raw_res
    \/ parse_string
    \/ parse_id
    \/ parse_regexp
    \/ parse_regexp_res
    \/ parse_union
    \/ parse_union_left
    \/ parse_union_tok
    \/ parse_union_right
    \/ parse_concat
    \/ parse_concat_left
    \/ parse_concat_tok
    \/ parse_concat_right
    \/ trailing_closure
    \/ trailing_closure_tok
    \/ match_next_token
    \/ match_next_token_rt
    \/ parse_character_class
    \/ parse_character_class_tok
    \/ parse_character_class_s1
    \/ parse_character_class_s2
    \/ parse_factor
    \/ parse_factor_tok
    \/ parse_factor_paren
    \/ parse_factor_pre
    \/ parse_factor_closure

Next ==
    \/ Step
    \/ caller_next_token
    \/ caller_return_token

Spec == Init /\ [][Next]_vars

\* The thread runs on until the call in hand returns or fails.
FairSpec == Spec /\ WF_vars(Step)

(***************************************************************************)
(* What the claims speak of.                                               *)
(***************************************************************************)
\* The number of characters taken from the Character Source and not given back.
Consumed == Len(input) - Len(rest)

\* The caller's first call is parse_regexp, running or over.
InParse == entry = "parse_regexp" /\ calls = 0

Stopped == status # "running"

SameToken(t, u) == Kind(t) = Kind(u) /\ t = u

\* The tokens scanned so far.
NToks == Len(log)

TokKind(i) == Kind(log[i].tok)

\* C1: parse_regexp on an input that holds a well-formed expression and then ends,
\* with no terminator character ("a", "a*", "a(b|c)*"), returns the expression's
\* tree and does not fail.
C1_NoTerminatorParses ==
    (given.kind = "example" /\ calls = 0 /\ Stopped)
        => (status = "done" /\ result = given.want)

\* C2: for a well-formed expression followed by a terminator, parse_regexp returns
\* the tree that mirrors the nesting as written: a closure wraps the factor before
\* it, concatenation binds tighter than alternation, chains lean to the right.
C2_TreeMirrorsNesting ==
    /\ (given.kind = "tree" /\ calls = 0 /\ Stopped)
           => (status = "done" /\ result = given.want)
    /\ (given.kind = "test" /\ entry = "parse_regexp" /\ calls = 0 /\ Stopped)
           => (status = "done" /\ result = given.want)

C2_Witness ==
    /\ given.kind = "tree"
    /\ status = "done"
    /\ result = <<Conc(Symb(<<"a">>), Conc(Str(<<"b">>), CharClass(<<Range("a", "z")>>)))>>

\* The place in the input of its first terminator character, 0 if it has none.
FirstTerminator ==
    IF \E i \in 1..Len(input) : input[i] \in term
    THEN CHOOSE i \in 1..Len(input) :
             input[i] \in term /\ \A j \in 1..(i - 1) : input[j] \notin term
    ELSE 0

\* The place in the input of the character the first End token was scanned from,
\* 0 if no End was scanned.
FirstEnd ==
    IF \E i \in 1..NToks : TokKind(i) = "End"
    THEN log[CHOOSE i \in 1..NToks :
                 TokKind(i) = "End" /\ \A j \in 1..(i - 1) : TokKind(j) # "End"].at
    ELSE 0

\* C3 as claimed, for the terminator set of the tests: parse_regexp never consumes
\* a character that lies after the first terminator character of the input.
C3_NeverPastFirstTerminator ==
    (InParse /\ term = {","} /\ FirstTerminator > 0) => Consumed <= FirstTerminator

\* C3 as amended: parse_regexp never consumes a character after the one the
\* scanner gave End for; a terminator character inside a string literal or an
\* identifier, or one that is whitespace, punctuation, a quote or a letter, is
\* never scanned as End and does not stop the parse.
C3_NeverPastEnd ==
    (InParse /\ FirstEnd > 0) => Consumed = FirstEnd

C3_Witness ==
    /\ InParse
    /\ status = "done"
    /\ FirstEnd > 0
    /\ Consumed = FirstEnd
    /\ rest = <<"'", "b", "'">>

\* C4: when parse_regexp returns, at any depth, exactly one token is pending; it is
\* the token that ended the expression, an End or an RParen, and the caller's next
\* next_token() returns it without reading the Character Source.
Pending(kinds) ==
    /\ Len(peek) = 1
    /\ Kind(peek[1]) \in kinds
    /\ SameToken(peek[1], log[NToks].tok)

C4_PendingEndOrRParen ==
    /\ (InParse /\ status = "done") => Pending({"End", "RParen"})
    /\ Running("parse_factor", 2) => Pending({"End", "RParen"})
    /\ (entry = "parse_regexp" /\ calls = 1 /\ status = "done"
            /\ op[2].name = "next_token")
           => (op[2].from = "peek" /\ op[2].took = 0
                 /\ Kind(op[2].tok) \in {"End", "RParen"})

C4_Witness ==
    /\ entry = "parse_regexp"
    /\ calls = 1
    /\ status = "done"
    /\ op[2].name = "next_token"
    /\ op[2].tok = End
    /\ given.kind = "tree"

\* C5: return_token(t) followed by next_token() returns exactly t, leaves no token
\* pending and reads nothing from the Character Source; the next_token() after
\* that scans the Character Source, so t is delivered once.
C5_PushbackOnce ==
    /\ (op[1].name = "return_token" /\ op[2].name = "next_token")
           => (SameToken(op[2].tok, op[1].tok) /\ op[2].from = "peek"
                 /\ op[2].took = 0)
    /\ op[2].name = "next_token" => peek = <<>>
    /\ (op[1].name = "next_token" /\ op[2].name = "next_token") => op[2].from = "raw"

C5_Witness ==
    /\ entry = "next_token"
    /\ calls = 3
    /\ status = "done"
    /\ op[1].name = "next_token" /\ op[1].from = "peek" /\ Kind(op[1].tok) = "String"
    /\ op[2].name = "next_token" /\ op[2].from = "raw" /\ Kind(op[2].tok) = "End"

\* The last operation was a next_token() that scanned the Character Source and
\* found c as the next unread character.
ScannedFrom(c) ==
    /\ op[2].name = "next_token"
    /\ op[2].from = "raw"
    /\ op[2].first = <<c>>

\* C6 as claimed: when no token is pending and the next unread character is in the
\* terminator set, next_token() returns End and that one character is consumed.
C6_TerminatorGivesEnd ==
    \A c \in term : ScannedFrom(c) => (Kind(op[2].tok) = "End" /\ op[2].took = 1)

\* The characters next_token_raw matches before it asks is_terminator.
Shadowing == Whitespace \cup DOMAIN SingleChar \cup {"'", "\""} \cup Alphabetic

\* C6 as amended: the same, for a terminator character that is not whitespace, not
\* one of [ ] ( ) * + | -, not a quote and not a letter; those are skipped or
\* scanned as their own tokens although they are in the terminator set.
C6_PlainTerminatorGivesEnd ==
    \A c \in term \ Shadowing :
        ScannedFrom(c) => (Kind(op[2].tok) = "End" /\ op[2].took = 1)

C6_Witness ==
    /\ ScannedFrom("0")
    /\ "0" \in term
    /\ op[2].tok = End

\* The first character of a string literal, for the claim's Range.
FirstOf(s) == IF s = <<>> THEN "" ELSE s[1]

\* The item the claim gives for an item as written.
ItemClaimed(it) ==
    IF Len(it) = 1 THEN Singles(it[1]) ELSE Range(FirstOf(it[1]), FirstOf(it[2]))

ItemsClaimed(items) == [i \in 1..Len(items) |-> ItemClaimed(items[i])]

\* Some range of the items has an empty string literal for a bound.
EmptyBound(items) ==
    \E i \in 1..Len(items) :
        Len(items[i]) = 2 /\ (items[i][1] = <<>> \/ items[i][2] = <<>>)

ClassReturned(items) ==
    /\ status = "done"
    /\ result = <<CharClass(ItemsClaimed(items))>>
    /\ peek = <<>>
    /\ rest = given.tail

\* C7 as claimed: parse_character_class, called after '[', returns CharClass of the
\* items in input order, a literal followed by Dash and a literal as Range of their
\* first characters, any other literal as Singles; it consumes the ']' and leaves
\* what follows it unread.
C7_ClassItems ==
    (given.kind = "class" /\ calls = 0 /\ Stopped) => ClassReturned(given.want[1])

\* C7 as amended: the same when both literals of every range hold at least one
\* character; a range with an empty literal for a bound fails the parse.
C7_ClassItemsNonEmptyBounds ==
    /\ (given.kind = "class" /\ calls = 0 /\ Stopped)
           => IF EmptyBound(given.want[1])
              THEN status = "failed" /\ result = <<>>
              ELSE ClassReturned(given.want[1])
    /\ (given.kind = "test" /\ entry = "parse_character_class" /\ given.want # <<>>
            /\ calls = 0 /\ Stopped)
           => (status = "done" /\ result = given.want /\ peek = <<>>)

C7_Witness ==
    /\ given.kind = "class"
    /\ status = "done"
    /\ calls = 0
    /\ result = <<CharClass(<<Range("a", "b"), Singles(<<"b", "z">>)>>)>>
    /\ rest = <<"*", ",">>

\* Token i lies in a character class: after a '[', or after the '[' the caller of
\* parse_character_class consumed, with no ']' in between.
Opened(i) ==
    \/ /\ entry = "parse_character_class"
       /\ \A k \in 1..(i - 1) : TokKind(k) # "RBrack"
    \/ \E j \in 1..(i - 1) :
           /\ TokKind(j) = "LBrack"
           /\ \A k \in (j + 1)..(i - 1) : TokKind(k) # "RBrack"

\* A class holds a Dash that is not directly between two string literals, or a
\* token other than a string literal, Dash and ']'.
BadClass ==
    \E i \in 1..NToks :
        /\ Opened(i)
        /\ \/ TokKind(i) \notin {"String", "Dash", "RBrack"}
           \/ /\ TokKind(i) = "Dash"
              /\ ~ (/\ i > 1
                    /\ TokKind(i - 1) = "String"
                    /\ i < NToks
                    /\ TokKind(i + 1) = "String")

\* A string literal is opened and its delimiter does not come again.
UnclosedString ==
    \E i \in 1..NToks :
        LET at == log[i].at
        IN  /\ at <= Len(input)
            /\ input[at] \in {"'", "\""}
            /\ \A k \in (at + 1)..Len(input) : input[k] # input[at]

\* The number of '(' outside classes that no ')' has closed after tokens 1..i.
RECURSIVE OpenParens(_)
OpenParens(i) ==
    IF i = 0 THEN 0
    ELSE LET d == OpenParens(i - 1)
         IN  IF Opened(i) THEN d
             ELSE IF TokKind(i) = "LParen" THEN d + 1
             ELSE IF TokKind(i) = "RParen" /\ d > 0 THEN d - 1
             ELSE d

\* Token i, outside a class, stands where a factor has to start: at the start,
\* after '(' or '|', or after a factor that it neither closes nor ends.
FactorStarts(i) ==
    /\ ~ Opened(i)
    /\ \/ i = 1
       \/ /\ i > 1
          /\ \/ TokKind(i - 1) \in {"LParen", "Bar"}
             \/ /\ TokKind(i) \notin {"Bar", "End", "RParen"}
                /\ ~ (/\ TokKind(i) \in {"Asterisk", "Plus"}
                      /\ TokKind(i - 1) \in {"Id", "String", "RParen", "RBrack"})

BadFactor ==
    \E i \in 1..NToks :
        FactorStarts(i) /\ TokKind(i) \notin {"LParen", "LBrack", "Id", "String"}

Malformed == BadClass \/ UnclosedString \/ OpenParens(NToks) > 0 \/ BadFactor

\* C8: a malformed input aborts the parse and no Ast is returned: no parse returns
\* after reading a malformed class, an unclosed string literal, a '(' left open or
\* a factor that starts with a wrong token; a failed parse has no result; the
\* tests that should fail do.
C8_MalformedFails ==
    /\ (calls = 0 /\ entry # "next_token" /\ status = "done") => ~ Malformed
    /\ (calls = 0 /\ status = "failed") => result = <<>>
    /\ (given.kind = "test" /\ given.want = <<>> /\ Stopped) => status = "failed"

C8_Witness ==
    /\ status = "failed"
    /\ entry = "parse_regexp"
    /\ OpenParens(NToks) > 0
    /\ NToks = 3
    /\ TokKind(3) = "End"

\* C9: in a run of parse_regexp that starts with no token pending, return_token is
\* never called while a token is pending, so no token is overwritten.
C9_NoTokenLost == entry = "parse_regexp" => ~ lost

C9_Witness ==
    /\ InParse
    /\ status = "done"
    /\ op[1].name = "next_token" /\ op[1].from = "peek"
    /\ op[2].name = "return_token"
    /\ given.kind = "tree"

\* A step that ends a call of parse_union or parse_concat, or a turn of the loop
\* of parse_string, parse_id or parse_character_class.
TurnEnds ==
    /\ status = "running"
    /\ stack # <<>>
    /\ \/ Top.fn \in {"parse_string", "parse_id"}
       \/ /\ Top.fn = "parse_character_class"
          /\ Top.pc > 0
          /\ \/ Len(stack') < Len(stack)
             \/ Len(stack') = Len(stack) /\ Head(stack').pc = 0
       \/ /\ Top.fn \in {"parse_union", "parse_concat"}
          /\ Len(stack') < Len(stack)

TurnConsumed == Len(rest') < Top.m

\* C10 as claimed: every call of parse_union and parse_concat and every turn of the
\* loops of parse_character_class, parse_string and parse_id consumes at least one
\* character or fails.
C10_EveryTurnConsumes ==
    [][TurnEnds => (TurnConsumed \/ status' = "failed")]_vars

\* The step leaves the loop of parse_id or parse_character_class by returning.
LeavesLoop ==
    /\ Top.fn \in {"parse_id", "parse_character_class"}
    /\ Len(stack') = Len(stack) - 1

\* C10 as amended: parse_regexp, and every call of the caller, stops, returning or
\* failing: a call of parse_union or parse_concat that returns has consumed a
\* character, a turn of parse_string consumes one or fails, and a turn of parse_id
\* or parse_character_class consumes one, fails, leaves the loop, or (in
\* parse_character_class) leaves Eof pending, on which the next turn fails.
C10_Stops ==
    /\ (status = "running") ~> Stopped
    /\ [][TurnEnds => \/ TurnConsumed
                      \/ status' = "failed"
                      \/ LeavesLoop
                      \/ Top.fn = "parse_character_class" /\ peek' = <<Eof>>]_vars
    /\ [][(Running("parse_character_class", 1) /\ Kind(ret) = "Eof")
              => status' = "failed"]_vars

C10_Witness ==
    /\ given.kind = "test"
    /\ entry = "parse_regexp"
    /\ status = "done"
    /\ Len(input) > 20

====
